---- MODULE Spec2Model ----
(***************************************************************************)
(* GhostBot: the agent loop (main.py run_ghost_bot), the action executor   *)
(* (main.py execute_action), the decision provider's retry policy and      *)
(* response normalizer (core/brain.py) and the session recorder            *)
(* (core/logger.py), as a state machine.                                   *)
(***************************************************************************)
EXTENDS Integers, Sequences, FiniteSets, TLC

\* main.py:27 sets MAX_STEPS = 50; the model runs the same loop with a
\* smaller step budget.
MAX_STEPS == 3

\* brain.py:134 / brain.py:216: stop_after_attempt(3).
MAX_ATTEMPTS == 3

VARIABLES
    pc,             \* position in run_ghost_bot
    step,           \* main.py:112 step
    goal_achieved,  \* main.py:113 goal_achieved (the value of the decision's field)
    decision,       \* main.py:151 decision, NoDecision when none is held
    attempts,       \* outcomes of the attempts of the running get_next_action call
    raised,         \* the exception get_next_action raised into the loop, or "none"
    success,        \* main.py:195 success, "unset" outside an execution
    lastCall,       \* the device-transport call execute_action made in this iteration
    fileExists,     \* whether SCREENSHOT_PATH exists on disk
    exitExc,        \* the exception run_ghost_bot exits with, "none" for a return
    interrupted,    \* where a KeyboardInterrupt arrived: "no", "try", "handler", "finally"
    captureCount,   \* number of driver.capture_screen calls
    decideCount,    \* number of brain.get_next_action calls
    returnedCount,  \* number of brain.get_next_action calls that returned a decision
    execCount,      \* number of execute_action calls
    failures,       \* number of iterations ended by a continue statement
    step_count,     \* logger.py TestReporter._step_count
    report,         \* the entries written to the report file, in order
    ppc,            \* position of the normalizer's caller: "idle", "ready", "parsed", "done"
    raw_content,    \* the raw reply text handed to _parse_response
    outcome,        \* what _parse_response(raw_content) ended with
    fencedOutcome,  \* what _parse_response ended with on raw_content inside a code fence
    last_response,  \* brain.py:30 BaseBrain._last_response
    last_raw_response, \* brain.py:31 BaseBrain._last_raw_response
    response_content, \* brain.py:263 response.content, the typed blocks of the reply
    attempt_number, \* the attempt of the get_next_action call under way, from 1
    last_error,     \* driver.py:23 MobileDriver._last_error, "None" or the message
    command,        \* the device command the last driver call ran, NoCommand when it ran none
    driverResult,   \* what the last driver call returned
    driverCalls,    \* number of driver calls made on the driver under test
    driverCall,     \* the last call made on the driver under test: method and arguments
    ux_issues,      \* logger.py:44 TestReporter._ux_issues
    lastOp,         \* the last call made on the recorder under test, with its arguments
    rops,           \* number of calls made on the recorder under test
    latency_ms,     \* main.py:142 latency_ms, 0 before the iteration measures it and after log_step got it
    context,        \* main.py:143-145 context: <<>> for None, <<l>> for the text naming l ms; <<>> after log_step
    stamps,         \* number of assignments to last_action_time made by the loop (main.py:202)
    failedStep,     \* step of the iteration whose capture_screen call failed last, 0 when it succeeded
    ops,            \* the operations of the current iteration, in the order they were started
    annotated,      \* whether the entry log_step has just written has the high-latency note
    slept,          \* ms the loop has slept in back-off and cool-down since last_action_time was assigned
    AI_PROVIDER,    \* the environment variable AI_PROVIDER, "<unset>" when not set
    OPENAI_API_KEY, \* the environment variable OPENAI_API_KEY
    ANTHROPIC_API_KEY, \* the environment variable ANTHROPIC_API_KEY
    provider,       \* the provider argument of AIBrain(...), "None" when not given
    brain,          \* what AIBrain(...) ended with: the class built or the exception, "none" before
    checked         \* what check_api_key() ended with, "none" before

loopVars == <<pc, step, goal_achieved, decision, attempts, raised, success, lastCall,
              fileExists, exitExc, interrupted, captureCount, decideCount, returnedCount,
              execCount, failures, step_count, report, latency_ms, context, stamps, failedStep, ops,
              annotated, slept>>

\* What the loop keeps about the iteration under way and the ones before.
iterVars == <<latency_ms, context, stamps, failedStep, ops, annotated, slept>>

brainVars == <<ppc, raw_content, outcome, fencedOutcome, last_response, last_raw_response,
               response_content, attempt_number>>

driverVars == <<last_error, command, driverResult, driverCalls, driverCall>>

reporterVars == <<ux_issues, lastOp, rops>>

factoryVars == <<AI_PROVIDER, OPENAI_API_KEY, ANTHROPIC_API_KEY, provider, brain, checked>>

\* The state of the collaborators that are modelled on their own: the loop
\* sees them through what their calls return.
partVars == <<brainVars, driverVars, reporterVars, factoryVars>>

vars == <<loopVars, partVars>>

----------------------------------------------------------------------------
(* Decisions: what _parse_response can hand to the loop.                   *)

NoDecision == [shape |-> "none"]

\* Values of the goal_achieved field: JSON true, JSON false, and a JSON string
\* (non-empty, hence truthy in Python).
GoalValues == {"true", "false", "str"}

\* Python truthiness of a goal_achieved value (main.py:117 "not goal_achieved",
\* main.py:194, main.py:205, logger.py:147).
Truthy(v) == v # "false"

\* An action object {"type": t, "value": v, "x": x, "y": y}.
Act(t, v, x, y) == [isdict |-> TRUE, type |-> t, value |-> v, x |-> x, y |-> y]

\* A decision's "action" that is not a JSON object (a string, say).
NonDictAction == [isdict |-> FALSE, type |-> "", value |-> "", x |-> 0, y |-> 0]

\* "<missing>": the object has no "type" key; "<number>": its type is not a string.
Actions ==
    { Act("tap", "Login", 0, 0), Act("tap_point", "", 10, 20), Act("input", "abc", 0, 0),
      Act("back", "", 0, 0), Act("wait", "", 0, 0), Act("done", "", 0, 0),
      Act("TAP", "Login", 0, 0), Act("zoom", "in", 0, 0),
      Act("<missing>", "", 0, 0), Act("<number>", "", 0, 0), NonDictAction }
    \cup { Act("swipe", d, 0, 0) : d \in {"up", "down", "left", "right", "diagonal", ""} }

Ux(s, i) == [isdict |-> TRUE, status |-> s, issue |-> i]

NonDictUx == [isdict |-> FALSE, status |-> "", issue |-> "null"]

UxAudits ==
    { Ux("PASS", "null"), Ux("WARN", "slow"), Ux("WARN", "null"), Ux("FAIL", "broken"),
      Ux("FAIL", "null"), Ux("BAD", "null"), Ux("<missing>", "null"), NonDictUx }

Dec(a, u, g) == [shape |-> "dict", action |-> a, ux_audit |-> u, goal_achieved |-> g]

\* A JSON array or string that holds the four field names: it passes the
\* membership test of brain.py:97-99 without being an object.
NonDictDecision ==
    [shape |-> "nondict", action |-> NonDictAction, ux_audit |-> NonDictUx,
     goal_achieved |-> "false"]

Decisions ==
    { Dec(a, Ux("PASS", "null"), g) : a \in Actions, g \in GoalValues }
    \cup { Dec(Act("tap", "Login", 0, 0), u, g) : u \in UxAudits, g \in GoalValues }
    \cup { NonDictDecision }

----------------------------------------------------------------------------
(* The decision provider's retry policy (tenacity decorator).              *)

TransientFaults == {"TimeoutError", "ConnectionError"}

\* What _parse_response raises on a reply it does not accept (brain.py:69,
\* 91, 99 raise ValueError; brain.py:98 raises TypeError on a JSON number,
\* boolean or null).
MalformedFaults == {"ValueError", "TypeError"}

\* What one attempt (the body of get_next_action) ends with: an exception of
\* the transport ("Exception" for one that is not transient) or of
\* _parse_response, or "ok" (a Decision is returned).
AttemptOutcomes == TransientFaults \cup {"ValueError", "TypeError", "Exception", "ok"}

\* Mutants of ShouldRetry: one attempt too many; every exception retried.
ShouldRetry_OneMore(o, n) == o \in TransientFaults /\ n <= MAX_ATTEMPTS

ShouldRetry_AnyException(o, n) == o # "ok" /\ n < MAX_ATTEMPTS

\* retry=retry_if_exception_type((TimeoutError, ConnectionError)),
\* stop=stop_after_attempt(3): whether the decorator runs another attempt
\* after attempt number n ended with outcome o.
ShouldRetry(o, n) == o \in TransientFaults /\ n < MAX_ATTEMPTS

----------------------------------------------------------------------------
(* The executor and the recorder.                                          *)

NoCall == [fn |-> "none", args |-> <<>>]

KnownTypes == {"tap", "tap_point", "input", "back", "swipe", "wait", "done"}

\* action.get("type", "").lower() (main.py:58): None when the type is not a string.
LowerType(a) ==
    CASE a.type = "<missing>" -> ""
      [] a.type = "TAP" -> "tap"
      [] OTHER -> a.type

\* Mutant of TransportCall: an input action taps its text instead of typing it.
TransportCall_InputAsTap(a) ==
    LET t == LowerType(a) IN
    CASE t \in {"tap", "input"} -> [fn |-> "tap", args |-> <<a.value>>]
      [] t = "tap_point" -> [fn |-> "tap_point", args |-> <<a.x, a.y>>]
      [] t = "back" -> [fn |-> "go_back", args |-> <<>>]
      [] t = "swipe" -> [fn |-> "swipe", args |-> <<a.value>>]
      [] OTHER -> NoCall

\* The driver call execute_action makes for an action (main.py:61-93).
TransportCall(a) ==
    LET t == LowerType(a) IN
    CASE t = "tap" -> [fn |-> "tap", args |-> <<a.value>>]
      [] t = "tap_point" -> [fn |-> "tap_point", args |-> <<a.x, a.y>>]
      [] t = "input" -> [fn |-> "input_text", args |-> <<a.value>>]
      [] t = "back" -> [fn |-> "go_back", args |-> <<>>]
      [] t = "swipe" -> [fn |-> "swipe", args |-> <<a.value>>]
      [] OTHER -> NoCall

\* driver.py:176-184: the directions MobileDriver.swipe accepts.
SwipeDirections == {"up", "down", "left", "right"}

\* The results execute_action can return for an action: the driver's boolean
\* for a transport call, True for wait and done, False otherwise.
ExecResults(a) ==
    LET t == LowerType(a) IN
    CASE t \in {"wait", "done"} -> {TRUE}
      [] t = "swipe" /\ a.value \notin SwipeDirections -> {FALSE}
      [] t \in {"tap", "tap_point", "input", "back", "swipe"} -> {TRUE, FALSE}
      [] OTHER -> {FALSE}

StepEntry(n) == [kind |-> "step", n |-> n, success |-> "", notes |-> ""]

Summary(s, notes, total) == [kind |-> "summary", n |-> total, success |-> s, notes |-> notes]

\* The end_session calls made so far, in order (each writes one summary).
EndSessionCalls == SelectSeq(report, LAMBDA e : e.kind = "summary")

\* A call on the recorder: the method and its arguments.
Op(op, a, u, lat, s, notes, exc) ==
    [op |-> op, action |-> a, ux_audit |-> u, latency_ms |-> lat, success |-> s,
     notes |-> notes, raised |-> exc]

NoOp == Op("none", NonDictAction, NonDictUx, 0, "", "", "none")

\* logger.py:56-63: the header start_session writes.
Header == [kind |-> "header", n |-> 0, success |-> "", notes |-> ""]

\* Mutant of Write: the file is opened for writing whatever the mode.
Write_Truncates(file, content, mode) == <<content>>

\* logger.py:171-174: _write(content, mode) on a file holding the entries
\* of file: mode "w" truncates, mode "a" (the default) appends.
Write(file, content, mode) == IF mode = "w" THEN <<content>> ELSE Append(file, content)

\* logger.py:85 and logger.py:105: action.get and ux_audit.get exist on a
\* dict only.
LogStepRaises(a, u) == ~a.isdict \/ ~u.isdict

\* Mutant of CountAfterLogStep: the counter moves once the entry is built.
CountAfterLogStep_Late(n, a, u) == IF LogStepRaises(a, u) THEN n ELSE n + 1

\* logger.py:82: self._step_count += 1, the first statement of log_step.
CountAfterLogStep(n, a, u) == n + 1

\* logger.py:105-115: the issue list after a log_step numbered n that did
\* not raise: a status that is PASS (the default when the key is absent)
\* adds nothing, WARN adds a WARN entry, any other status a FAIL entry.
IssuesAfterLogStep(issues, n, u) ==
    IF u.status \in {"PASS", "<missing>"}
       THEN issues
       ELSE Append(issues, [step |-> n,
                            status |-> IF u.status = "WARN" THEN "WARN" ELSE "FAIL",
                            issue |-> u.issue])

\* logger.py:85-102: how log_step renders the action of a dict: one of the
\* 7 wordings for the 7 type strings, the raw "type: value" form for any
\* other type ("unknown" when the key is absent).
LoggedVariant(a) == IF a.type \in KnownTypes THEN a.type ELSE "unrecognized"

\* The actions handed to log_step: one of the 7 types, an unknown type, and
\* a value that is no dict.
LoggedActions == {Act("tap", "Login", 0, 0), Act("zoom", "in", 0, 0), NonDictAction}

\* The final notes handed to end_session.
Notes == {"ended", "interrupted", ""}

\* The step entries written so far.
StepEntries == SelectSeq(report, LAMBDA e : e.kind = "step")

----------------------------------------------------------------------------
(* The response normalizer: BaseBrain._parse_response (brain.py:53-101).   *)
(* A text is a sequence of lexemes: the fence marker "FENCE" (three back-  *)
(* quotes), the line break                                                 *)
(* "NL", the blank "SP", the form feed "FF" (white space for str.strip,    *)
(* not for JSON), the JSON punctuation "{", "}", "[", "]", an object       *)
(* member "m:<key>" (the key, its value and its separator), a JSON string  *)
(* literal "s:<text>", the JSON scalars "1", "null", "true", and "x", text *)
(* that is no JSON.                                                        *)

\* Mutant of required_fields: goal_achieved is not checked.
required_fields_Three == <<"reasoning", "action", "ux_audit">>

\* brain.py:96
required_fields == <<"reasoning", "action", "ux_audit", "goal_achieved">>

Fence == "FENCE"

\* Characters str.strip() removes (brain.py:72).
StripSpace == {"SP", "NL", "FF"}

\* White space json.loads accepts around and between tokens.
JsonSpace == {"SP", "NL"}

Members == {"m:reasoning", "m:action", "m:ux_audit", "m:goal_achieved", "m:extra"}

\* "s:all" is a string literal whose text holds the four field names.
Strings == {"s:reasoning", "s:action", "s:ux_audit", "s:goal_achieved", "s:all"}

Scalars == Strings \cup {"1", "null", "true"}

RECURSIVE LStrip(_)
LStrip(s) == IF s # <<>> /\ Head(s) \in StripSpace THEN LStrip(Tail(s)) ELSE s

RECURSIVE RStrip(_)
RStrip(s) ==
    IF s # <<>> /\ s[Len(s)] \in StripSpace THEN RStrip(SubSeq(s, 1, Len(s) - 1)) ELSE s

\* str.strip()
Strip(s) == RStrip(LStrip(s))

\* str.startswith of the marker (brain.py:73, brain.py:79)
StartsWithFence(s) == s # <<>> /\ Head(s) = Fence

\* str.split("\n"): the lines of a text, the line breaks removed.
RECURSIVE SplitLines(_, _)
SplitLines(s, line) ==
    IF s = <<>> THEN <<line>>
    ELSE IF Head(s) = "NL" THEN <<line>> \o SplitLines(Tail(s), <<>>)
    ELSE SplitLines(Tail(s), Append(line, Head(s)))

\* brain.py:76-83: a line that starts with the marker toggles in_block and
\* is dropped; any other line is kept while in_block holds.
RECURSIVE BlockLines(_, _)
BlockLines(lines, in_block) ==
    IF lines = <<>> THEN <<>>
    ELSE IF StartsWithFence(Head(lines)) THEN BlockLines(Tail(lines), ~in_block)
    ELSE IF in_block THEN <<Head(lines)>> \o BlockLines(Tail(lines), in_block)
    ELSE BlockLines(Tail(lines), in_block)

\* "\n".join(json_lines)
RECURSIVE JoinLines(_)
JoinLines(lines) ==
    IF lines = <<>> THEN <<>>
    ELSE IF Len(lines) = 1 THEN Head(lines)
    ELSE Head(lines) \o <<"NL">> \o JoinLines(Tail(lines))

\* Mutant of ExtractContent: the fence is not stripped.
ExtractContent_NoFence(raw) == Strip(raw)

\* brain.py:71-84: the text json.loads is given.
ExtractContent(raw) ==
    LET content == Strip(raw) IN
    IF StartsWithFence(content)
       THEN JoinLines(BlockLines(SplitLines(content, <<>>), FALSE))
       ELSE content

RECURSIVE LSkip(_)
LSkip(s) == IF s # <<>> /\ Head(s) \in JsonSpace THEN LSkip(Tail(s)) ELSE s

RECURSIVE RSkip(_)
RSkip(s) ==
    IF s # <<>> /\ s[Len(s)] \in JsonSpace THEN RSkip(SubSeq(s, 1, Len(s) - 1)) ELSE s

NotSpace(c) == c \notin JsonSpace

JSONDecodeError == [kind |-> "JSONDecodeError", items |-> {}]

\* json.loads: one JSON value with white space around it. An object is
\* "{", members, "}"; an array is "[", scalars, "]". The value keeps its
\* kind and its members (keys) or elements.
JsonLoads(content) ==
    LET body == RSkip(LSkip(content))
        n == Len(body)
        inner == SelectSeq(SubSeq(body, 2, n - 1), NotSpace)
        items == {inner[i] : i \in 1..Len(inner)}
    IN  IF n = 0 THEN JSONDecodeError
        ELSE IF n = 1
           THEN IF body[1] \in Strings THEN [kind |-> "string", items |-> {body[1]}]
                ELSE IF body[1] \in Scalars THEN [kind |-> body[1], items |-> {}]
                ELSE JSONDecodeError
        ELSE IF body[1] = "{" /\ body[n] = "}" /\ items \subseteq Members
           THEN [kind |-> "object", items |-> items]
        ELSE IF body[1] = "[" /\ body[n] = "]" /\ items \subseteq Scalars
           THEN [kind |-> "array", items |-> items]
        ELSE JSONDecodeError

\* The test field-in-parsed of brain.py:98: a key of a dict, an element of
\* a list, a substring of a str; any other value is not iterable.
SupportsIn(v) == v.kind \in {"object", "array", "string"}

FieldIn(field, v) ==
    CASE v.kind = "object" -> ("m:" \o field) \in v.items
      [] v.kind = "array" -> ("s:" \o field) \in v.items
      [] v.kind = "string" -> v.items \cap {"s:" \o field, "s:all"} # {}
      [] OTHER -> FALSE

\* brain.py:96-99: the first required field that is absent, 0 when none is.
RECURSIVE FirstMissing(_, _)
FirstMissing(v, i) ==
    IF i > Len(required_fields) THEN 0
    ELSE IF ~FieldIn(required_fields[i], v) THEN i
    ELSE FirstMissing(v, i + 1)

NoValue == [kind |-> "None", items |-> {}]

Returned(v) == [status |-> "ok", value |-> v]

Raised(e) == [status |-> e, value |-> NoValue]

\* Mutant of ParseResponse: only a call that returns stores its text and
\* its value; a call that raises keeps no raw text.
ParseResponse_StoreOnSuccess(raw, prev) ==
    LET parsed == JsonLoads(ExtractContent(raw)) IN
    IF raw = <<>> \/ parsed = JSONDecodeError
       THEN [result |-> Raised("ValueError"), last_response |-> prev,
             last_raw_response |-> <<"None">>]
    ELSE IF ~SupportsIn(parsed)
       THEN [result |-> Raised("TypeError"), last_response |-> prev,
             last_raw_response |-> <<"None">>]
    ELSE IF FirstMissing(parsed, 1) # 0
       THEN [result |-> Raised("ValueError"), last_response |-> prev,
             last_raw_response |-> <<"None">>]
    ELSE [result |-> Returned(parsed), last_response |-> parsed,
          last_raw_response |-> raw]

\* brain.py:66-101: what a call ends with and the diagnostics it leaves;
\* prev is _last_response before the call.
ParseResponse(raw, prev) ==
    LET parsed == JsonLoads(ExtractContent(raw)) IN
    IF raw = <<>>
       THEN [result |-> Raised("ValueError"), last_response |-> prev,
             last_raw_response |-> raw]
    ELSE IF parsed = JSONDecodeError
       THEN [result |-> Raised("ValueError"), last_response |-> prev,
             last_raw_response |-> raw]
    ELSE IF ~SupportsIn(parsed)
       THEN [result |-> Raised("TypeError"), last_response |-> parsed,
             last_raw_response |-> raw]
    ELSE IF FirstMissing(parsed, 1) # 0
       THEN [result |-> Raised("ValueError"), last_response |-> parsed,
             last_raw_response |-> raw]
    ELSE [result |-> Returned(parsed), last_response |-> parsed,
          last_raw_response |-> raw]

\* A text inside a code fence: the opening marker line, the text, the
\* closing marker line.
Fenced(t) == <<Fence, "NL">> \o t \o <<"NL", Fence>>

\* Longest run of white space and markers put before and after a body.
MaxAffix == 2

RECURSIVE SeqsUpTo(_, _)
SeqsUpTo(S, n) ==
    IF n = 0 THEN {<<>>}
    ELSE LET shorter == SeqsUpTo(S, n - 1)
         IN  shorter \cup {Append(s, c) : s \in shorter, c \in S}

Prefixes ==
    SeqsUpTo({Fence, "NL", "SP", "FF"}, MaxAffix)
    \cup {<<Fence, "x", "NL">>, <<"SP", Fence, "NL">>, <<"FF", Fence, "NL">>}

Suffixes ==
    SeqsUpTo({Fence, "NL", "SP"}, MaxAffix)
    \cup {<<"FF">>, <<"NL", "FF">>, <<"NL", Fence, "NL">>, <<"NL", Fence, "SP">>,
          <<"NL", Fence, "x">>}

AllFour == <<"m:reasoning", "m:action", "m:ux_audit", "m:goal_achieved">>

\* The objects with the required members at the positions of keep, on one line.
ObjectWith(keep) == <<"{">> \o SelectSeq(AllFour, LAMBDA m : m \in keep) \o <<"}">>

Bodies ==
    { ObjectWith(keep) : keep \in SUBSET {AllFour[i] : i \in 1..4} }
    \cup { <<"{">> \o AllFour \o <<"m:extra", "}">>,
           <<"{", "NL", "SP", "m:reasoning", "NL", "SP", "m:action", "NL", "SP",
             "m:ux_audit", "NL", "SP", "m:goal_achieved", "NL", "}">>,
           <<"[", "s:reasoning", "s:action", "s:ux_audit", "s:goal_achieved", "]">>,
           <<"[", "s:reasoning", "s:action", "s:ux_audit", "]">>,
           <<"[", "]">>,
           <<"s:all">>, <<"s:reasoning">>, <<"1">>, <<"null">>, <<"true">>,
           <<>>, <<"x">>, <<"{", "m:reasoning">>,
           <<"{">> \o AllFour \o <<"}", "x">>,
           <<"{">> \o AllFour \o <<"}", "{", "}">> }

\* The raw reply texts the normalizer is run on.
RawTexts == { p \o b \o s : p \in Prefixes, b \in Bodies, s \in Suffixes }

NoOutcome == [status |-> "none", value |-> NoValue]

----------------------------------------------------------------------------
(* MobileDriver (core/driver.py).                                          *)

NoCommand == [prog |-> "none", coords |-> <<>>, text |-> ""]

Cmd(prog, coords, text) == [prog |-> prog, coords |-> coords, text |-> text]

\* How a subprocess.run ends (driver.py:43-68): exit code 0, another exit
\* code, TimeoutExpired, FileNotFoundError, any other Exception.
RunOutcomes == {"ok", "nonzero", "timeout", "notfound", "error"}

\* Mutant of RunCommand: a timeout leaves _last_error as it is after a success.
RunCommand_TimeoutUnreported(cmd, o) ==
    [success |-> o = "ok",
     last_error |-> CASE o \in {"ok", "timeout"} -> "None"
                      [] o = "nonzero" -> "stderr"
                      [] o = "notfound" -> "Command not found"
                      [] OTHER -> "str(e)",
     command |-> cmd]

\* driver.py:50-68: the pair _run_command returns and the _last_error it sets.
RunCommand(cmd, o) ==
    [success |-> o = "ok",
     last_error |-> CASE o = "ok" -> "None"
                      [] o = "nonzero" -> "stderr"
                      [] o = "timeout" -> "Command timed out after 30 seconds"
                      [] o = "notfound" -> "Command not found"
                      [] OTHER -> "str(e)",
     command |-> cmd]

\* Mutant of swipe_coords: left and right share one quadruple.
swipe_coords_LeftIsRight ==
    [d \in SwipeDirections |->
        CASE d = "up" -> <<500, 1500, 500, 500>>
          [] d = "down" -> <<500, 500, 500, 1500>>
          [] OTHER -> <<200, 1000, 800, 1000>>]

\* driver.py:176-181: the coordinate table of swipe.
swipe_coords ==
    [d \in SwipeDirections |->
        CASE d = "up" -> <<500, 1500, 500, 500>>
          [] d = "down" -> <<500, 500, 500, 1500>>
          [] d = "left" -> <<800, 1000, 200, 1000>>
          [] OTHER -> <<200, 1000, 800, 1000>>]

\* Mutant of Swipe: an unknown direction falls back to swiping up.
Swipe_DefaultsUp(direction, o) ==
    RunCommand(Cmd("adb shell input swipe",
                   IF direction \in DOMAIN swipe_coords THEN swipe_coords[direction]
                                                        ELSE swipe_coords["up"], "300"), o)

\* driver.py:166-190: swipe(direction), the subprocess ending with o.
Swipe(direction, o) ==
    IF direction \notin DOMAIN swipe_coords
       THEN [success |-> FALSE, last_error |-> "Invalid swipe direction", command |-> NoCommand]
       ELSE RunCommand(Cmd("adb shell input swipe", swipe_coords[direction], "300"), o)

\* The direction strings handed to swipe.
Directions == SwipeDirections \cup {"diagonal", "", "UP", "upward"}

\* The texts handed to tap, input_text and launch_app.
Texts == {"Login", ""}

\* The points handed to tap_point.
Points == {<<10, 20>>, <<0, 0>>}

----------------------------------------------------------------------------
(* run_ghost_bot.                                                          *)

\* A provider freshly built (brain.py:29-31) that is handed nothing.
BrainIdle ==
    /\ ppc = "idle"
    /\ raw_content = <<>>
    /\ outcome = NoOutcome
    /\ fencedOutcome = NoOutcome
    /\ last_response = NoValue
    /\ last_raw_response = <<"None">>
    /\ response_content = <<>>
    /\ attempt_number = 1

\* A driver freshly built (driver.py:21-23).
DriverIdle ==
    /\ last_error = "None"
    /\ command = NoCommand
    /\ driverResult = "unset"
    /\ driverCalls = 0
    /\ driverCall = NoCall

\* A recorder freshly built (logger.py:41-44): no issue, no call yet.
ReporterIdle ==
    /\ ux_issues = <<>>
    /\ lastOp = NoOp
    /\ rops = 0

\* Nothing configured, no brain built (the process environment of a model
\* run that does not construct a provider).
FactoryIdle ==
    /\ AI_PROVIDER = "<unset>"
    /\ OPENAI_API_KEY = "<unset>"
    /\ ANTHROPIC_API_KEY = "<unset>"
    /\ provider = "None"
    /\ brain = "none"
    /\ checked = "none"

\* main.py:29
HIGH_LATENCY_THRESHOLD == 5000

\* Mutant of HighLatency: the threshold itself counts as high.
HighLatency_AtThreshold(l) == l >= HIGH_LATENCY_THRESHOLD

\* main.py:144: if latency_ms > HIGH_LATENCY_THRESHOLD
HighLatency(l) == l > HIGH_LATENCY_THRESHOLD

\* main.py:141-142: the part of int((current_time - last_action_time) * 1000)
\* that was not spent in the loop's own sleeps: none, just below, at and
\* just above the threshold, far above.
Readings == {0, 4999, 5000, 5001, 60000}

\* main.py:125: time.sleep(1) after a failed capture, in ms.
CAPTURE_BACKOFF == 1000

\* main.py:164: time.sleep(5) after a failed provider call, in ms.
ERROR_COOLDOWN == 5000

\* Mutant of HighLatencyNote: the threshold itself is annotated.
HighLatencyNote_AtThreshold(l) == l >= 5000

\* logger.py:124-127: the entry gets the note when latency_ms > 5000.
HighLatencyNote(l) == l > 5000

\* main.py:143-145: None, or the text that names the latency.
Context(l) == IF HighLatency(l) THEN <<l>> ELSE <<>>

\* The state at main.py:116, entering the try block: components built,
\* start_session has written the header.
Init ==
    /\ pc = "while"
    /\ step = 0
    /\ goal_achieved = "false"
    /\ decision = NoDecision
    /\ attempts = <<>>
    /\ raised = "none"
    /\ success = "unset"
    /\ lastCall = NoCall
    /\ fileExists = FALSE
    /\ exitExc = "none"
    /\ interrupted = "no"
    /\ captureCount = 0
    /\ decideCount = 0
    /\ returnedCount = 0
    /\ execCount = 0
    /\ failures = 0
    /\ step_count = 0
    /\ report = <<[kind |-> "header", n |-> 0, success |-> "", notes |-> ""]>>
    /\ latency_ms = 0
    /\ context = <<>>
    /\ stamps = 0
    /\ failedStep = 0
    /\ ops = <<>>
    /\ annotated = FALSE
    /\ slept = 0
    /\ BrainIdle
    /\ DriverIdle
    /\ ReporterIdle
    /\ FactoryIdle

\* Mutants of LoopCondition: an off-by-one budget; a budget that failed
\* iterations do not consume.
LoopCondition_OffByOne == step <= MAX_STEPS /\ ~Truthy(goal_achieved)

LoopCondition_FreeRetry == step - failures < MAX_STEPS /\ ~Truthy(goal_achieved)

\* main.py:117: while step < MAX_STEPS and not goal_achieved
LoopCondition == step < MAX_STEPS /\ ~Truthy(goal_achieved)

\* Mutant of ShouldExecute: the action is executed whatever the goal flag.
ShouldExecute_Always == TRUE

\* main.py:194: if not goal_achieved
ShouldExecute == ~Truthy(goal_achieved)

recorderVars == <<step_count, report>>
counters == <<captureCount, decideCount, returnedCount, execCount, failures>>
locals == <<decision, attempts, raised, success, lastCall>>

\* main.py:117-119: the loop test and, when it passes, step += 1.
WhileTest ==
    /\ pc = "while"
    /\ IF LoopCondition
          THEN /\ step' = step + 1
               /\ pc' = "capture"
               /\ ops' = <<>>
          ELSE /\ step' = step
               /\ pc' = "final"
               /\ ops' = ops
    /\ latency_ms' = 0
    /\ context' = <<>>
    /\ annotated' = FALSE
    /\ decision' = NoDecision
    /\ attempts' = <<>>
    /\ raised' = "none"
    /\ success' = "unset"
    /\ lastCall' = NoCall
    /\ UNCHANGED <<partVars, slept, stamps, failedStep, goal_achieved, fileExists, exitExc, interrupted, counters, recorderVars>>

\* main.py:123-126 with driver.py:82-100: capture_screen opens the file for
\* writing (which creates it) and runs adb; a failure of adb returns False
\* with the file created, an exception of open returns False without it.
CaptureScreen ==
    /\ pc = "capture"
    /\ captureCount' = captureCount + 1
    /\ \E res \in {"ok", "adb_failed", "open_failed"} :
          /\ fileExists' = IF res = "open_failed" THEN fileExists ELSE TRUE
          /\ IF res = "ok"
                THEN pc' = "encode" /\ failures' = failures /\ failedStep' = 0
                ELSE pc' = "capture_sleep" /\ failures' = failures + 1 /\ failedStep' = step
    /\ ops' = Append(ops, "capture")
    /\ UNCHANGED <<partVars, annotated, slept, latency_ms, context, stamps, step, goal_achieved, locals, exitExc, interrupted, decideCount, returnedCount,
                   execCount, recorderVars>>

\* Mutant of CaptureBackoff: the failed iteration gives its step back.
CaptureBackoff_SameIndex ==
    /\ pc = "capture_sleep"
    /\ pc' = "while"
    /\ step' = step - 1
    /\ slept' = slept + CAPTURE_BACKOFF
    /\ UNCHANGED <<partVars, latency_ms, context, stamps, failedStep, ops, annotated, goal_achieved, locals, fileExists, exitExc, interrupted,
                   counters, recorderVars>>

\* main.py:125-126: time.sleep(1); continue
CaptureBackoff ==
    /\ pc = "capture_sleep"
    /\ pc' = "while"
    /\ slept' = slept + CAPTURE_BACKOFF
    /\ UNCHANGED <<partVars, latency_ms, context, stamps, failedStep, ops, annotated, step, goal_achieved, locals, fileExists, exitExc, interrupted,
                   counters, recorderVars>>

\* main.py:130-134: encode_image; any Exception continues the loop.
EncodeImage ==
    /\ pc = "encode"
    /\ \E ok \in BOOLEAN :
          IF ok THEN pc' = "observe" /\ failures' = failures
                ELSE pc' = "while" /\ failures' = failures + 1
    /\ ops' = Append(ops, "encode")
    /\ UNCHANGED <<partVars, annotated, slept, latency_ms, context, stamps, failedStep, step, goal_achieved, locals, fileExists, exitExc, interrupted,
                   captureCount, decideCount, returnedCount, execCount, recorderVars>>

\* main.py:138-146: get_hierarchy (None on failure) and the latency context.
Observe ==
    /\ pc = "observe"
    /\ pc' = "decide"
    /\ ops' = Append(ops, "hierarchy")
    /\ \E l \in Readings :
          /\ latency_ms' = slept + l
          /\ context' = Context(slept + l)
    /\ UNCHANGED <<partVars, annotated, slept, stamps, failedStep, step, goal_achieved, locals, fileExists, exitExc, interrupted,
                   counters, recorderVars>>

\* main.py:151: the call of brain.get_next_action enters the retry decorator.
CallBrain ==
    /\ pc = "decide"
    /\ decideCount' = decideCount + 1
    /\ attempts' = <<>>
    /\ pc' = "attempt"
    /\ ops' = Append(ops, "decide")
    /\ UNCHANGED <<partVars, annotated, slept, latency_ms, context, stamps, failedStep, step, goal_achieved, decision, raised, success, lastCall, fileExists,
                   exitExc, interrupted, captureCount, returnedCount, execCount, failures, recorderVars>>

\* brain.py:133-186 / 215-278: one attempt of get_next_action under the
\* decorator: the transport call, then _parse_response.
Attempt ==
    /\ pc = "attempt"
    /\ \E o \in AttemptOutcomes :
          /\ attempts' = Append(attempts, o)
          /\ IF o = "ok"
                THEN /\ \E d \in Decisions : decision' = d
                     /\ raised' = "none"
                     /\ returnedCount' = returnedCount + 1
                     /\ pc' = "extract"
                ELSE /\ decision' = decision
                     /\ returnedCount' = returnedCount
                     /\ IF ShouldRetry(o, Len(attempts) + 1)
                           THEN raised' = "none" /\ pc' = "backoff"
                           ELSE raised' = o /\ pc' = "except"
    /\ UNCHANGED <<partVars, iterVars, step, goal_achieved, success, lastCall, fileExists, exitExc,
                   interrupted, captureCount, decideCount, execCount, failures, recorderVars>>

\* wait=wait_exponential(multiplier=1, min=2, max=10): the sleep between attempts.
Backoff ==
    /\ pc = "backoff"
    /\ pc' = "attempt"
    /\ UNCHANGED <<partVars, iterVars, step, goal_achieved, locals, fileExists, exitExc, interrupted,
                   counters, recorderVars>>

\* Mutant of HandleBrainError: a failed decide call gives its step back.
HandleBrainError_StepBack ==
    /\ pc = "except"
    /\ failures' = failures + 1
    /\ step' = step - 1
    /\ pc' = IF raised = "ValueError" THEN "while" ELSE "cooldown"
    /\ raised' = "none"
    /\ attempts' = <<>>
    /\ UNCHANGED <<partVars, iterVars, goal_achieved, decision, success, lastCall, fileExists,
                   exitExc, interrupted, captureCount, decideCount, returnedCount, execCount,
                   recorderVars>>

\* main.py:157-165: ValueError continues at once, any other Exception
\* sleeps 5 seconds first. The except clause ends the exception and the call.
HandleBrainError ==
    /\ pc = "except"
    /\ failures' = failures + 1
    /\ pc' = IF raised = "ValueError" THEN "while" ELSE "cooldown"
    /\ raised' = "none"
    /\ attempts' = <<>>
    /\ UNCHANGED <<partVars, iterVars, step, goal_achieved, decision, success, lastCall, fileExists,
                   exitExc, interrupted, captureCount, decideCount, returnedCount, execCount,
                   recorderVars>>

\* Mutant of Cooldown: the cool-down restarts the latency clock.
Cooldown_Restamps ==
    /\ pc = "cooldown"
    /\ pc' = "while"
    /\ slept' = 0
    /\ UNCHANGED <<partVars, latency_ms, context, stamps, failedStep, ops, annotated, step, goal_achieved, locals, fileExists, exitExc, interrupted,
                   counters, recorderVars>>

\* main.py:164-165: time.sleep(5); continue
Cooldown ==
    /\ pc = "cooldown"
    /\ pc' = "while"
    /\ slept' = slept + ERROR_COOLDOWN
    /\ UNCHANGED <<partVars, latency_ms, context, stamps, failedStep, ops, annotated, step, goal_achieved, locals, fileExists, exitExc, interrupted,
                   counters, recorderVars>>

\* An exception that is no KeyboardInterrupt leaves the try block through
\* the finally clause (main.py:225).
Crash(e) ==
    /\ pc' = "finally"
    /\ exitExc' = e

\* main.py:168-183: decision.get(...) four times, then ux_audit.get("status").
\* A decision or a ux_audit that is no dict has no get: AttributeError.
Extract ==
    /\ pc = "extract"
    /\ IF decision.shape = "dict" /\ decision.ux_audit.isdict
          THEN /\ goal_achieved' = decision.goal_achieved
               /\ pc' = "log"
               /\ exitExc' = exitExc
          ELSE /\ goal_achieved' =
                     IF decision.shape = "dict" THEN decision.goal_achieved
                                                ELSE goal_achieved
               /\ Crash("AttributeError")
    /\ UNCHANGED <<partVars, iterVars, step, locals, fileExists, interrupted, counters, recorderVars>>

\* main.py:186-191 with logger.py:66-131: log_step increments _step_count,
\* formats the action (action.get: AttributeError when it is no dict) and
\* appends the entry.
LogStep ==
    /\ pc = "log"
    /\ step_count' = step_count + 1
    /\ IF decision.action.isdict
          THEN /\ report' = Append(report, StepEntry(step_count + 1))
               /\ annotated' = HighLatencyNote(latency_ms)
               /\ pc' = "execute"
               /\ exitExc' = exitExc
          ELSE /\ report' = report
               /\ annotated' = FALSE
               /\ Crash("AttributeError")
    /\ ops' = Append(ops, "record")
    /\ latency_ms' = 0
    /\ context' = <<>>
    /\ UNCHANGED <<partVars, slept, stamps, failedStep, step, goal_achieved, locals, fileExists, interrupted, counters>>

\* main.py:193-197 with main.py:47-93: execute_action, skipped when the
\* goal is achieved. A type that is no string has no lower(): AttributeError.
Execute ==
    /\ pc = "execute"
    /\ IF ShouldExecute
          THEN /\ execCount' = execCount + 1
               /\ ops' = Append(ops, "execute")
               /\ IF decision.action.type = "<number>"
                     THEN /\ Crash("AttributeError")
                          /\ UNCHANGED <<partVars, lastCall, success>>
                     ELSE /\ lastCall' = TransportCall(decision.action)
                          /\ \E r \in ExecResults(decision.action) : success' = r
                          /\ pc' = "settle"
                          /\ exitExc' = exitExc
          ELSE /\ pc' = "stamp"
               /\ UNCHANGED <<partVars, execCount, lastCall, success, exitExc, ops>>
    /\ annotated' = FALSE
    /\ UNCHANGED <<partVars, slept, latency_ms, context, stamps, failedStep, step, goal_achieved, decision, attempts, raised, fileExists,
                   interrupted, captureCount, decideCount, returnedCount, failures, recorderVars>>

\* Mutant of Settle: a failed action is executed again.
Settle_RetriesFailure ==
    /\ pc = "settle"
    /\ pc' = IF success = FALSE THEN "execute" ELSE "stamp"
    /\ UNCHANGED <<partVars, iterVars, step, goal_achieved, locals, fileExists, exitExc, interrupted,
                   counters, recorderVars>>

\* main.py:200: time.sleep(UI_SETTLE_TIME)
Settle ==
    /\ pc = "settle"
    /\ pc' = "stamp"
    /\ UNCHANGED <<partVars, iterVars, step, goal_achieved, locals, fileExists, exitExc, interrupted,
                   counters, recorderVars>>

\* main.py:202: last_action_time = time.time()
Stamp ==
    /\ pc = "stamp"
    /\ pc' = "while"
    /\ stamps' = stamps + 1
    /\ slept' = 0
    /\ UNCHANGED <<partVars, annotated, latency_ms, context, failedStep, ops, step, goal_achieved, locals, fileExists, exitExc, interrupted,
                   counters, recorderVars>>

\* main.py:205-214 with logger.py:133-169: end_session(success=goal_achieved,
\* final_notes="Session ended after {step} steps.") appends the summary.
Finalize ==
    /\ pc = "final"
    /\ report' = Append(report, Summary(goal_achieved, "ended", step_count))
    /\ pc' = "final_print"
    /\ UNCHANGED <<partVars, iterVars, step, goal_achieved, locals, fileExists, exitExc, interrupted,
                   counters, step_count>>

\* main.py:215: the report path is printed; the try block ends.
FinalPrint ==
    /\ pc = "final_print"
    /\ pc' = "finally"
    /\ UNCHANGED <<partVars, iterVars, step, goal_achieved, locals, fileExists, exitExc, interrupted,
                   counters, recorderVars>>

\* The positions inside the try block (main.py:117-215).
TryPcs == {"while", "capture", "capture_sleep", "encode", "observe", "decide", "attempt",
           "backoff", "except", "cooldown", "extract", "log", "execute", "settle",
           "stamp", "final", "final_print"}

HandlerPcs == {"handler", "handler_print"}

\* A KeyboardInterrupt is raised in the main thread between two bytecodes.
\* Inside the try block it is caught at main.py:217; inside the handler it
\* leaves through the finally clause; inside the finally clause it leaves
\* the function at once.
KeyboardInterrupt ==
    /\ \/ /\ pc \in TryPcs
          /\ pc' = "handler"
          /\ interrupted' = "try"
          /\ exitExc' = exitExc
       \/ /\ pc \in HandlerPcs
          /\ pc' = "finally"
          /\ interrupted' = "handler"
          /\ exitExc' = "KeyboardInterrupt"
       \/ /\ pc = "finally"
          /\ pc' = "exited"
          /\ interrupted' = "finally"
          /\ exitExc' = "KeyboardInterrupt"
    /\ decision' = NoDecision
    /\ attempts' = <<>>
    /\ raised' = "none"
    /\ success' = "unset"
    /\ lastCall' = NoCall
    /\ latency_ms' = 0
    /\ context' = <<>>
    /\ ops' = <<>>
    /\ annotated' = FALSE
    /\ slept' = 0
    /\ UNCHANGED <<partVars, stamps, failedStep, step, goal_achieved, fileExists, counters, recorderVars>>

\* Mutant of HandleInterrupt: the summary reports the goal flag.
HandleInterrupt_ReportsGoal ==
    /\ pc = "handler"
    /\ report' = Append(report, Summary(goal_achieved, "interrupted", step_count))
    /\ pc' = "handler_print"
    /\ UNCHANGED <<partVars, iterVars, step, goal_achieved, locals, fileExists, exitExc, interrupted,
                   counters, step_count>>

\* main.py:217-222: end_session(success=False, final_notes="Session
\* interrupted by user.")
HandleInterrupt ==
    /\ pc = "handler"
    /\ report' = Append(report, Summary("false", "interrupted", step_count))
    /\ pc' = "handler_print"
    /\ UNCHANGED <<partVars, iterVars, step, goal_achieved, locals, fileExists, exitExc, interrupted,
                   counters, step_count>>

\* main.py:223
HandlerPrint ==
    /\ pc = "handler_print"
    /\ pc' = "finally"
    /\ UNCHANGED <<partVars, iterVars, step, goal_achieved, locals, fileExists, exitExc, interrupted,
                   counters, recorderVars>>

\* main.py:225-228: if SCREENSHOT_PATH.exists(): SCREENSHOT_PATH.unlink()
Cleanup ==
    /\ pc = "finally"
    /\ fileExists' = FALSE
    /\ pc' = "exited"
    /\ UNCHANGED <<partVars, iterVars, step, goal_achieved, locals, exitExc, interrupted, counters,
                   recorderVars>>

Next ==
    \/ WhileTest
    \/ CaptureScreen
    \/ CaptureBackoff
    \/ EncodeImage
    \/ Observe
    \/ CallBrain
    \/ Attempt
    \/ Backoff
    \/ HandleBrainError
    \/ Cooldown
    \/ Extract
    \/ LogStep
    \/ Execute
    \/ Settle
    \/ Stamp
    \/ Finalize
    \/ FinalPrint
    \/ KeyboardInterrupt
    \/ HandleInterrupt
    \/ HandlerPrint
    \/ Cleanup

Spec == Init /\ [][Next]_vars

----------------------------------------------------------------------------
(* The normalizer run on its own: a provider freshly built (brain.py:29-31)*)
(* is handed a raw text, then the same text inside a code fence.           *)

\* No run of the loop: the locals of run_ghost_bot at their first values.
LoopIdle ==
    /\ pc = "exited"
    /\ step = 0
    /\ goal_achieved = "false"
    /\ decision = NoDecision
    /\ attempts = <<>>
    /\ raised = "none"
    /\ success = "unset"
    /\ lastCall = NoCall
    /\ fileExists = FALSE
    /\ exitExc = "none"
    /\ interrupted = "no"
    /\ captureCount = 0
    /\ decideCount = 0
    /\ returnedCount = 0
    /\ execCount = 0
    /\ failures = 0
    /\ step_count = 0
    /\ report = <<>>
    /\ latency_ms = 0
    /\ context = <<>>
    /\ stamps = 0
    /\ failedStep = 0
    /\ ops = <<>>
    /\ annotated = FALSE
    /\ slept = 0

ParseInit ==
    /\ LoopIdle
    /\ DriverIdle
    /\ ReporterIdle
    /\ FactoryIdle
    /\ ppc = "ready"
    /\ raw_content \in RawTexts
    /\ outcome = NoOutcome
    /\ fencedOutcome = NoOutcome
    /\ last_response = NoValue
    /\ last_raw_response = <<"None">>
    /\ response_content = <<>>
    /\ attempt_number = 1

\* self._parse_response(raw_content)
ParseCall ==
    /\ ppc = "ready"
    /\ LET r == ParseResponse(raw_content, last_response) IN
          /\ outcome' = r.result
          /\ last_response' = r.last_response
          /\ last_raw_response' = r.last_raw_response
    /\ ppc' = "parsed"
    /\ UNCHANGED <<loopVars, driverVars, reporterVars, factoryVars, raw_content, fencedOutcome,
                   response_content, attempt_number>>

\* self._parse_response of the same text inside a code fence
ParseFencedCall ==
    /\ ppc = "parsed"
    /\ LET r == ParseResponse(Fenced(raw_content), last_response) IN
          /\ fencedOutcome' = r.result
          /\ last_response' = r.last_response
          /\ last_raw_response' = r.last_raw_response
    /\ ppc' = "done"
    /\ UNCHANGED <<loopVars, driverVars, reporterVars, factoryVars, raw_content, outcome,
                   response_content, attempt_number>>

ParseNext == ParseCall \/ ParseFencedCall

ParseSpec == ParseInit /\ [][ParseNext]_vars

FairSpec == Spec /\ WF_vars(Next)

----------------------------------------------------------------------------
(* The driver on its own: a MobileDriver freshly built is called, method   *)
(* after method, each subprocess ending in any of the ways it can.         *)

\* Number of calls made on the driver.
MaxCalls == 2

DriverInit == LoopIdle /\ BrainIdle /\ DriverIdle /\ ReporterIdle /\ FactoryIdle

\* The driver's state after the call c went through r and returned ret.
Returns(c, r, ret) ==
    /\ driverCalls < MaxCalls
    /\ driverCall' = c
    /\ last_error' = r.last_error
    /\ command' = r.command
    /\ driverResult' = ret
    /\ driverCalls' = driverCalls + 1

Bool(b) == IF b THEN "True" ELSE "False"

Call(fn, args) == [fn |-> fn, args |-> args]

\* driver.py:166-190
DriverSwipe ==
    /\ \E d \in Directions, o \in RunOutcomes :
          Returns(Call("swipe", <<d>>), Swipe(d, o), Bool(Swipe(d, o).success))
    /\ UNCHANGED <<loopVars, brainVars, reporterVars, factoryVars>>

\* driver.py:114-125
DriverTap ==
    /\ \E t \in Texts, o \in RunOutcomes :
          LET r == RunCommand(Cmd("maestro studio tap", <<>>, t), o) IN
          Returns(Call("tap", <<t>>), r, Bool(r.success))
    /\ UNCHANGED <<loopVars, brainVars, reporterVars, factoryVars>>

\* driver.py:127-141
DriverTapPoint ==
    /\ \E p \in Points, o \in RunOutcomes :
          LET r == RunCommand(Cmd("maestro studio tap -x -y", p, ""), o) IN
          Returns(Call("tap_point", p), r, Bool(r.success))
    /\ UNCHANGED <<loopVars, brainVars, reporterVars, factoryVars>>

\* driver.py:143-154
DriverInputText ==
    /\ \E t \in Texts, o \in RunOutcomes :
          LET r == RunCommand(Cmd("maestro studio input", <<>>, t), o) IN
          Returns(Call("input_text", <<t>>), r, Bool(r.success))
    /\ UNCHANGED <<loopVars, brainVars, reporterVars, factoryVars>>

\* driver.py:156-164
DriverGoBack ==
    /\ \E o \in RunOutcomes :
          LET r == RunCommand(Cmd("adb shell input keyevent", <<>>, "4"), o) IN
          Returns(Call("go_back", <<>>), r, Bool(r.success))
    /\ UNCHANGED <<loopVars, brainVars, reporterVars, factoryVars>>

\* driver.py:102-112: the output on success, None otherwise.
DriverGetHierarchy ==
    /\ \E o \in RunOutcomes :
          LET r == RunCommand(Cmd("maestro hierarchy", <<>>, ""), o) IN
          Returns(Call("get_hierarchy", <<>>), r, IF r.success THEN "xml" ELSE "None")
    /\ UNCHANGED <<loopVars, brainVars, reporterVars, factoryVars>>

\* driver.py:192-206
DriverLaunchApp ==
    /\ \E t \in Texts, o \in RunOutcomes :
          LET r == RunCommand(Cmd("adb shell monkey -p -c LAUNCHER 1", <<>>, t), o) IN
          Returns(Call("launch_app", <<t>>), r, Bool(r.success))
    /\ UNCHANGED <<loopVars, brainVars, reporterVars, factoryVars>>

\* driver.py:70-100: open creates the file, then adb runs; every Exception
\* (of open, or TimeoutExpired and FileNotFoundError of run) is caught.
DriverCaptureScreen ==
    /\ \E o \in RunOutcomes \cup {"open_failed"} :
          /\ Returns(Call("capture_screen", <<"path">>),
                     [success |-> o = "ok",
                      last_error |-> CASE o = "ok" -> "None"
                                       [] o = "nonzero" -> "stderr"
                                       [] OTHER -> "str(e)",
                      command |-> IF o = "open_failed" THEN NoCommand
                                  ELSE Cmd("adb exec-out screencap -p", <<>>, "")],
                     Bool(o = "ok"))
          /\ fileExists' = IF o = "open_failed" THEN fileExists ELSE TRUE
    /\ UNCHANGED <<pc, step, goal_achieved, locals, exitExc, interrupted, counters,
                   recorderVars, iterVars, brainVars, reporterVars, factoryVars>>

DriverNext ==
    \/ DriverSwipe
    \/ DriverTap
    \/ DriverTapPoint
    \/ DriverInputText
    \/ DriverGoBack
    \/ DriverGetHierarchy
    \/ DriverLaunchApp
    \/ DriverCaptureScreen

DriverSpec == DriverInit /\ [][DriverNext]_vars

----------------------------------------------------------------------------
(* The recorder on its own: a TestReporter freshly built is called, method *)
(* after method, in any order; a call that raises ends its use, as the     *)
(* exception leaves run_ghost_bot.                                          *)

\* Number of calls made on the recorder.
MaxOps == 4

RecorderInit == LoopIdle /\ BrainIdle /\ DriverIdle /\ ReporterIdle /\ FactoryIdle

RecorderReady == rops < MaxOps /\ lastOp.raised = "none"

runVars == <<pc, step, goal_achieved, locals, fileExists, exitExc, interrupted, counters,
             iterVars>>

\* logger.py:46-64
RecStartSession ==
    /\ RecorderReady
    /\ report' = Write(report, Header, "w")
    /\ lastOp' = Op("start_session", NonDictAction, NonDictUx, 0, "", "", "none")
    /\ rops' = rops + 1
    /\ UNCHANGED <<runVars, step_count, ux_issues, brainVars, driverVars, factoryVars>>

\* logger.py:66-131
RecLogStep ==
    /\ RecorderReady
    /\ \E a \in LoggedActions, u \in UxAudits :
          /\ step_count' = CountAfterLogStep(step_count, a, u)
          /\ IF LogStepRaises(a, u)
                THEN /\ lastOp' = Op("log_step", a, u, 0, "", "", "AttributeError")
                     /\ UNCHANGED <<ux_issues, report>>
                ELSE /\ lastOp' = Op("log_step", a, u, 0, "", "", "none")
                     /\ ux_issues' = IssuesAfterLogStep(ux_issues, step_count', u)
                     /\ report' = Write(report, StepEntry(step_count'), "a")
    /\ rops' = rops + 1
    /\ UNCHANGED <<runVars, brainVars, driverVars, factoryVars>>

\* logger.py:133-169
RecEndSession ==
    /\ RecorderReady
    /\ \E s \in GoalValues, notes \in Notes :
          /\ report' = Write(report, Summary(s, notes, step_count), "a")
          /\ lastOp' = Op("end_session", NonDictAction, NonDictUx, 0, s, notes, "none")
    /\ rops' = rops + 1
    /\ UNCHANGED <<runVars, step_count, ux_issues, brainVars, driverVars, factoryVars>>

RecorderNext == RecStartSession \/ RecLogStep \/ RecEndSession

RecorderSpec == RecorderInit /\ [][RecorderNext]_vars

----------------------------------------------------------------------------
(* Provider selection: AIBrain.__new__ (brain.py:288-328) and              *)
(* check_api_key (main.py:231-257), each run once in a process environment *)
(* that holds any of the selectors and keys.                               *)

\* The selector strings tried, as AI_PROVIDER and as the provider argument.
Selectors ==
    {"openai", "OpenAI", "OPENAI", "anthropic", "Anthropic", "ANTHROPIC",
     "claude", "Claude", "CLAUDE", "gemini", "gpt-4o", "open ai", " openai", ""}

\* The values of an API key variable: not set, set to nothing, set.
KeyValues == {"<unset>", "", "sk-key"}

\* str.lower() on the selectors.
Lower(s) ==
    CASE s \in {"OpenAI", "OPENAI"} -> "openai"
      [] s \in {"Anthropic", "ANTHROPIC"} -> "anthropic"
      [] s \in {"Claude", "CLAUDE"} -> "claude"
      [] OTHER -> s

\* os.getenv(name, default): the default when the variable is not set.
GetEnv(v, default) == IF v = "<unset>" THEN default ELSE v

\* Python's "a or b" on an optional string: b when a is None or empty.
Or(a, b) == IF a \in {"None", ""} THEN b ELSE a

\* not os.getenv(name): the variable is not set or empty.
NotSet(v) == v \in {"<unset>", ""}

\* Mutant of SelectVariant: claude is no alias of anthropic.
SelectVariant_NoAlias(p) ==
    CASE p = "openai" -> "OpenAIBrain"
      [] p = "anthropic" -> "AnthropicBrain"
      [] OTHER -> "ValueError"

\* brain.py:313-328: the class built for the lowered selector p, or the
\* ValueError raised.
SelectVariant(p) ==
    CASE p = "openai" -> "OpenAIBrain"
      [] p \in {"anthropic", "claude"} -> "AnthropicBrain"
      [] OTHER -> "ValueError"

\* main.py:240-257: what check_api_key ends with for the lowered selector p.
ProviderName(p, openai_key, anthropic_key) ==
    CASE p = "openai" ->
            IF NotSet(openai_key) THEN "exit: OPENAI_API_KEY not set" ELSE "OpenAI"
      [] p \in {"anthropic", "claude"} ->
            IF NotSet(anthropic_key) THEN "exit: ANTHROPIC_API_KEY not set"
                                     ELSE "Anthropic (Claude)"
      [] OTHER -> "exit: Unknown AI_PROVIDER"

FactoryInit ==
    /\ LoopIdle
    /\ BrainIdle
    /\ DriverIdle
    /\ ReporterIdle
    /\ AI_PROVIDER \in Selectors \cup {"<unset>"}
    /\ OPENAI_API_KEY \in KeyValues
    /\ ANTHROPIC_API_KEY \in KeyValues
    /\ provider \in Selectors \cup {"None"}
    /\ brain = "none"
    /\ checked = "none"

\* brain.py:288-328: AIBrain(provider=provider)
NewBrain ==
    /\ brain = "none"
    /\ brain' = SelectVariant(Lower(Or(provider, GetEnv(AI_PROVIDER, "openai"))))
    /\ UNCHANGED <<loopVars, brainVars, driverVars, reporterVars, AI_PROVIDER,
                   OPENAI_API_KEY, ANTHROPIC_API_KEY, provider, checked>>

\* main.py:231-257: check_api_key()
CheckApiKey ==
    /\ checked = "none"
    /\ checked' = ProviderName(Lower(GetEnv(AI_PROVIDER, "openai")),
                               OPENAI_API_KEY, ANTHROPIC_API_KEY)
    /\ UNCHANGED <<loopVars, brainVars, driverVars, reporterVars, AI_PROVIDER,
                   OPENAI_API_KEY, ANTHROPIC_API_KEY, provider, brain>>

FactoryNext == NewBrain \/ CheckApiKey

FactorySpec == FactoryInit /\ [][FactoryNext]_vars

----------------------------------------------------------------------------
(* The Anthropic variant's reply handling: AnthropicBrain.get_next_action  *)
(* (brain.py:215-278) called once on a provider freshly built; each        *)
(* attempt either fails in the transport or gets a reply made of typed     *)
(* blocks.                                                                 *)

\* Most blocks in a reply.
MaxBlocks == 3

Block(type, text) == [type |-> type, text |-> text]

\* The texts a block carries: a Decision, an object lacking a field, the
\* Decision inside a code fence, text that is no JSON, nothing.
BlockTexts ==
    { ObjectWith({AllFour[i] : i \in 1..4}),
      ObjectWith({AllFour[i] : i \in 1..3}),
      Fenced(ObjectWith({AllFour[i] : i \in 1..4})),
      <<"x">>, <<>> }

\* Text blocks, and blocks of other types whose payload reads as a Decision.
Blocks ==
    { Block("text", t) : t \in BlockTexts }
    \cup { Block(ty, ObjectWith({AllFour[i] : i \in 1..4})) : ty \in {"tool_use", "thinking"} }

\* response.content
Replies == SeqsUpTo(Blocks, MaxBlocks)

\* Mutant of FirstText: the loop over the blocks has no break.
RECURSIVE FirstText_Last(_)
FirstText_Last(blocks) ==
    IF blocks = <<>> THEN <<>>
    ELSE IF blocks[Len(blocks)].type = "text" THEN blocks[Len(blocks)].text
    ELSE FirstText_Last(SubSeq(blocks, 1, Len(blocks) - 1))

\* brain.py:271-276: raw_content is "" unless a block of type text is met,
\* and the loop stops at the first one.
RECURSIVE FirstText(_)
FirstText(blocks) ==
    IF blocks = <<>> THEN <<>>
    ELSE IF Head(blocks).type = "text" THEN Head(blocks).text
    ELSE FirstText(Tail(blocks))

ReplyInit ==
    /\ LoopIdle
    /\ DriverIdle
    /\ ReporterIdle
    /\ FactoryIdle
    /\ ppc = "create"
    /\ raw_content = <<>>
    /\ outcome = NoOutcome
    /\ fencedOutcome = NoOutcome
    /\ last_response = NoValue
    /\ last_raw_response = <<"None">>
    /\ response_content = <<>>
    /\ attempt_number = 1

\* brain.py:263-269: self.client.messages.create(...) returns a reply or
\* raises a transport fault.
CreateMessage ==
    /\ ppc = "create"
    /\ \/ \E r \in Replies :
             /\ response_content' = r
             /\ outcome' = NoOutcome
             /\ ppc' = "select"
       \/ \E f \in TransientFaults :
             /\ response_content' = response_content
             /\ outcome' = Raised(f)
             /\ ppc' = "raised"
    /\ UNCHANGED <<loopVars, driverVars, reporterVars, factoryVars, raw_content,
                   fencedOutcome, last_response, last_raw_response, attempt_number>>

\* brain.py:271-276
SelectText ==
    /\ ppc = "select"
    /\ raw_content' = FirstText(response_content)
    /\ ppc' = "parse"
    /\ UNCHANGED <<loopVars, driverVars, reporterVars, factoryVars, outcome, fencedOutcome,
                   last_response, last_raw_response, response_content, attempt_number>>

\* brain.py:278: return self._parse_response(raw_content)
ParseReply ==
    /\ ppc = "parse"
    /\ LET r == ParseResponse(raw_content, last_response) IN
          /\ outcome' = r.result
          /\ last_response' = r.last_response
          /\ last_raw_response' = r.last_raw_response
          /\ ppc' = IF r.result.status = "ok" THEN "returned" ELSE "raised"
    /\ UNCHANGED <<loopVars, driverVars, reporterVars, factoryVars, raw_content,
                   fencedOutcome, response_content, attempt_number>>

\* brain.py:215-220: the decorator makes another attempt or re-raises.
RetryOrReraise ==
    /\ ppc = "raised"
    /\ IF ShouldRetry(outcome.status, attempt_number)
          THEN /\ attempt_number' = attempt_number + 1
               /\ ppc' = "create"
          ELSE /\ attempt_number' = attempt_number
               /\ ppc' = "reraised"
    /\ UNCHANGED <<loopVars, driverVars, reporterVars, factoryVars, raw_content, outcome,
                   fencedOutcome, last_response, last_raw_response, response_content>>

ReplyNext == CreateMessage \/ SelectText \/ ParseReply \/ RetryOrReraise

ReplySpec == ReplyInit /\ [][ReplyNext]_vars

----------------------------------------------------------------------------
(* Properties.                                                             *)

Last(s) == s[Len(s)]

\* The run left the try block by its last statement (main.py:215) and
\* returned: no exception, no interruption.
ReturnedNormally ==
    pc \in {"finally", "exited"} /\ exitExc = "none" /\ interrupted = "no"

\* C1: when the loop ends after iterations that all succeeded with
\* goal_achieved false, exactly MAX_STEPS steps were recorded (log_step
\* calls and step entries) and MAX_STEPS actions executed, and end_session
\* is called, once, with success False.
C1_BudgetExhaustion ==
    /\ (pc \in {"final", "final_print"} \/ ReturnedNormally)
         /\ failures = 0 /\ ~Truthy(goal_achieved)
       => /\ step = MAX_STEPS
          /\ step_count = MAX_STEPS
          /\ Len(StepEntries) = MAX_STEPS
          /\ execCount = MAX_STEPS
    /\ (pc = "final_print" \/ ReturnedNormally)
         /\ failures = 0 /\ ~Truthy(goal_achieved)
       => EndSessionCalls = <<Summary("false", "ended", MAX_STEPS)>>

C1_Witness ==
    /\ pc = "exited" /\ ReturnedNormally
    /\ failures = 0 /\ ~Truthy(goal_achieved)
    /\ execCount = MAX_STEPS /\ Len(StepEntries) = MAX_STEPS

C3_BoundedTermination ==
    /\ [](/\ decideCount <= captureCount
          /\ captureCount <= step
          /\ failures <= step
          /\ step <= MAX_STEPS)
    /\ <>(pc = "exited")

C3_Witness ==
    /\ pc = "exited" /\ ReturnedNormally
    /\ failures = MAX_STEPS /\ captureCount = MAX_STEPS /\ decideCount > 0
    /\ step_count = 0

\* C4: on every terminal path (goal achieved, budget
\* exhausted, interruption inside the loop or the finalization) end_session
\* has been invoked exactly once, and no step entry follows a summary.
C4_EndSessionExactlyOnce ==
    (pc = "exited" /\ exitExc = "none" /\ interrupted \in {"no", "try"})
       => /\ Len(EndSessionCalls) = 1
          /\ \A i \in 1..Len(report) : \A j \in 1..Len(report) :
                (i < j /\ report[i].kind = "summary") => report[j].kind # "step"

\* C5: whenever run_ghost_bot has exited, by any path, the
\* screenshot file does not exist.
C5_FileRemovedOnEveryExit == pc = "exited" => ~fileExists

AllTransient(s) == \A i \in 1..Len(s) : s[i] \in TransientFaults

\* C6: a get_next_action call makes at most 3 attempts; after 3
\* consecutive transient faults the call raises, and what it raises is the
\* third fault; after 2 transient faults and a success the third attempt's
\* Decision is returned, and no attempt follows a success.
C6_RetryPolicy ==
    /\ Len(attempts) <= 3
    /\ (Len(attempts) = 3 /\ AllTransient(attempts))
          => pc = "except" /\ raised = attempts[3]
    /\ (pc = "except" /\ raised \in TransientFaults)
          => Len(attempts) = 3 /\ AllTransient(attempts)
    /\ (Len(attempts) = 3 /\ AllTransient(SubSeq(attempts, 1, 2)) /\ attempts[3] = "ok")
          => raised = "none" /\ decision \in Decisions
               /\ pc \notin {"attempt", "backoff", "except"}
    /\ (attempts # <<>> /\ Last(attempts) = "ok") => pc \notin {"attempt", "backoff"}

C6_Witness ==
    /\ pc = "except"
    /\ attempts = <<"ConnectionError", "ConnectionError", "TimeoutError">>
    /\ raised = "TimeoutError"

\* C7: an attempt that ends with a failure that is no TimeoutError and no
\* ConnectionError is the call's last attempt, whichever attempt it is, and
\* its exception is what the call raises.
C7_NonTransientNotRetried ==
    \A i \in 1..Len(attempts) :
        attempts[i] \notin TransientFaults \cup {"ok"}
           => /\ i = Len(attempts)
              /\ pc = "except"
              /\ raised = attempts[i]

C7_Witness ==
    /\ pc = "except"
    /\ attempts = <<"TimeoutError", "ValueError">>
    /\ raised = "ValueError"

RequiredMembers == {"m:reasoning", "m:action", "m:ux_audit", "m:goal_achieved"}

\* What the raw text holds, as json.loads reads it once the fence is off.
Holds(raw) == JsonLoads(ExtractContent(raw))

\* What _parse_response must end with on a text that holds a JSON object.
ObjectContract(raw, result) ==
    Holds(raw).kind = "object" =>
        IF RequiredMembers \subseteq Holds(raw).items
           THEN result = Returned(Holds(raw))
           ELSE result = Raised("ValueError")

\* C8: on a raw text that parses to a JSON object, _parse_response returns
\* the object unchanged when it has the four required keys and raises
\* ValueError when one is absent; an object it returns has the four keys.
C8_ObjectsValidated ==
    /\ ppc \in {"parsed", "done"} => ObjectContract(raw_content, outcome)
    /\ ppc = "done" => ObjectContract(Fenced(raw_content), fencedOutcome)
    /\ \A r \in {outcome, fencedOutcome} :
          (r.status = "ok" /\ r.value.kind = "object")
             => RequiredMembers \subseteq r.value.items

C8_Witness ==
    /\ ppc = "done"
    /\ outcome = Returned([kind |-> "object", items |-> RequiredMembers \cup {"m:extra"}])
    /\ Head(raw_content) = Fence

\* C9: on a raw text that holds no JSON object (empty, no
\* JSON, or a JSON value that is no object) _parse_response raises
\* ValueError.
C9_NonObjectsRejected ==
    /\ (ppc \in {"parsed", "done"} /\ Holds(raw_content).kind # "object")
          => outcome = Raised("ValueError")
    /\ (ppc = "done" /\ Holds(Fenced(raw_content)).kind # "object")
          => fencedOutcome = Raised("ValueError")

\* Same Decision, or failure on both sides (whatever the exceptions).
SameOutcome(a, b) == IF a.status = "ok" \/ b.status = "ok" THEN a = b ELSE TRUE

\* C10 (as claimed): for any interior text, _parse_response ends the same
\* way (same Decision, or failure) on the text inside a code fence as on
\* the text alone.
C10_FencePreservesAnyText == ppc = "done" => SameOutcome(fencedOutcome, outcome)

Range(s) == {s[i] : i \in 1..Len(s)}

\* C10 (amended): for any interior text that holds no fence marker and
\* whose leading and trailing white space is JSON white space,
\* _parse_response ends the same way on the text inside a code fence as on
\* the text alone: the same Decision, or the same exception.
C10_FencePreservesMarkerFreeText ==
    (ppc = "done" /\ Fence \notin Range(raw_content)
        /\ Strip(raw_content) = RSkip(LSkip(raw_content)))
       => fencedOutcome = outcome

C10_Witness ==
    /\ ppc = "done"
    /\ Fence \notin Range(raw_content)
    /\ Len(SplitLines(raw_content, <<>>)) > 3
    /\ outcome.status = "ok"
    /\ fencedOutcome = outcome

\* The type tag as execute_action compares it: a string type in lower case,
\* the empty string when the action has no type.
Tag(a) == LowerType(a)

\* What the claim lists for an action whose type tag is t.
Listed(a, t) ==
    CASE t = "tap" -> [fn |-> "tap", args |-> <<a.value>>]
      [] t = "tap_point" -> [fn |-> "tap_point", args |-> <<a.x, a.y>>]
      [] t = "input" -> [fn |-> "input_text", args |-> <<a.value>>]
      [] t = "back" -> [fn |-> "go_back", args |-> <<>>]
      [] t = "swipe" -> [fn |-> "swipe", args |-> <<a.value>>]
      [] OTHER -> NoCall

C12_SwipeDirections ==
    /\ \A d, e \in SwipeDirections : d # e => swipe_coords[d] # swipe_coords[e]
    /\ driverCall.fn = "swipe" =>
          LET d == driverCall.args[1] IN
          IF d \in {"up", "down", "left", "right"}
             THEN /\ command.prog = "adb shell input swipe"
                  /\ command.coords = swipe_coords[d]
                  /\ d = "up" => command.coords = <<500, 1500, 500, 500>>
                  /\ d = "down" => command.coords = <<500, 500, 500, 1500>>
                  /\ d = "left" => command.coords = <<800, 1000, 200, 1000>>
                  /\ d = "right" => command.coords = <<200, 1000, 800, 1000>>
             ELSE /\ command = NoCommand
                  /\ driverResult = "False"

C12_Witness ==
    /\ driverCalls = 2
    /\ driverCall = Call("swipe", <<"">>)
    /\ command = NoCommand /\ driverResult = "False"
    /\ last_error = "Invalid swipe direction"

IsPrefix(s, t) == Len(s) <= Len(t) /\ SubSeq(t, 1, Len(s)) = s

\* C13: the step counter starts at 0; a log_step call increases it by
\* exactly 1, whatever the action and the UX status and whether it raises,
\* and the entry it writes carries the new count; start_session and
\* end_session leave the counter alone.
C13_StepCounter ==
    /\ step_count = 0
    /\ [][/\ lastOp'.op = "log_step" => step_count' = step_count + 1
          /\ (lastOp'.op = "log_step" /\ report' # report)
                => report' = Append(report, StepEntry(step_count + 1))
          /\ lastOp'.op # "log_step" => step_count' = step_count]_vars

C13_Witness ==
    /\ step_count = 3
    /\ lastOp.op = "end_session"
    /\ Len(StepEntries) = 3 /\ StepEntries[3].n = 3

\* C14: the issue list only grows, holds WARN and FAIL entries only with
\* strictly increasing step numbers; a log_step with status PASS leaves it
\* unchanged and one with status WARN or FAIL appends exactly one entry
\* with that status and the current step number.
C14_IssueListDiscipline ==
    /\ [](\A i \in 1..Len(ux_issues) :
            /\ ux_issues[i].status \in {"WARN", "FAIL"}
            /\ i > 1 => ux_issues[i - 1].step < ux_issues[i].step)
    /\ [][/\ IsPrefix(ux_issues, ux_issues')
          /\ (lastOp'.op = "log_step" /\ lastOp'.ux_audit.status = "PASS")
                => ux_issues' = ux_issues
          /\ (lastOp'.op = "log_step" /\ lastOp'.ux_audit.status \in {"WARN", "FAIL"})
                => ux_issues' = Append(ux_issues,
                                       [step |-> step_count',
                                        status |-> lastOp'.ux_audit.status,
                                        issue |-> lastOp'.ux_audit.issue])]_vars

\* C15 (as claimed): whatever the sequence of start_session, log_step and
\* end_session calls, a step entry once written stays where it is in the
\* report, unchanged.
C15_StepsNeverRewritten ==
    [][\A i \in 1..Len(report) :
          report[i].kind = "step" => (Len(report') >= i /\ report'[i] = report[i])]_vars

\* C15 (amended): every call other than a start_session made after the
\* recorder's first call only appends to the report: what was written stays,
\* in its order.
C15_AppendOnlyOnceStarted ==
    [][(lastOp'.op = "start_session" /\ rops > 0) \/ IsPrefix(report, report')]_vars

C15_Witness ==
    /\ rops = 4
    /\ report = <<Header, StepEntry(1), StepEntry(2), Summary("true", "ended", 2)>>

\* C16: whenever the loop is in a get_next_action call, the context it
\* passed is non-null exactly when the measured latency is strictly greater
\* than HIGH_LATENCY_THRESHOLD, and a non-null context names that latency;
\* at or below the threshold the context is null.
C16_LatencyContext ==
    pc \in {"decide", "attempt", "backoff"} =>
        /\ (context # <<>>) <=> (latency_ms > HIGH_LATENCY_THRESHOLD)
        /\ context # <<>> => context = <<latency_ms>>
        /\ latency_ms <= HIGH_LATENCY_THRESHOLD => context = <<>>

C16_Witness ==
    /\ pc = "attempt"
    /\ latency_ms = HIGH_LATENCY_THRESHOLD + 1
    /\ context = <<HIGH_LATENCY_THRESHOLD + 1>>
    /\ step_count > 0

\* The spellings of a provider name that differ in letter case only.
Spellings(name) ==
    CASE name = "openai" -> {"openai", "OpenAI", "OPENAI"}
      [] name = "anthropic" -> {"anthropic", "Anthropic", "ANTHROPIC"}
      [] OTHER -> {"claude", "Claude", "CLAUDE"}

\* The selector configured in the environment, openai when there is none.
EnvSelector == IF AI_PROVIDER = "<unset>" THEN "openai" ELSE AI_PROVIDER

\* The selector a construction goes by: the provider argument when one is
\* given (a non-empty string), the configured one otherwise.
Selector == IF provider \in {"None", ""} THEN EnvSelector ELSE provider

Supported == Spellings("openai") \cup Spellings("anthropic") \cup Spellings("claude")

\* C17: construction builds the OpenAI variant for the selector openai (the
\* default when none is configured), the Anthropic variant for anthropic
\* and claude, in any letter case, and for every other selector raises and
\* builds nothing; check_api_key rejects as unknown exactly the selectors
\* construction rejects.
C17_ProviderSelection ==
    /\ brain # "none" =>
          /\ Selector \in Spellings("openai") => brain = "OpenAIBrain"
          /\ Selector \in Spellings("anthropic") \cup Spellings("claude")
                => brain = "AnthropicBrain"
          /\ Selector \notin Supported => brain = "ValueError"
    /\ checked # "none" =>
          /\ (checked = "exit: Unknown AI_PROVIDER") <=> (EnvSelector \notin Supported)
          /\ checked = "OpenAI" => EnvSelector \in Spellings("openai")
          /\ checked = "Anthropic (Claude)"
                => EnvSelector \in Spellings("anthropic") \cup Spellings("claude")
    /\ (brain # "none" /\ checked # "none" /\ provider = "None") =>
          ((brain = "ValueError") <=> (checked = "exit: Unknown AI_PROVIDER"))

C17_Witness ==
    /\ provider = "None" /\ AI_PROVIDER = "CLAUDE"
    /\ brain = "AnthropicBrain"
    /\ checked = "Anthropic (Claude)"

\* C18 (as claimed): the iteration that follows a failed capture has the
\* step number of the failed iteration.
C18_RetrySameStep ==
    [][(pc = "while" /\ failedStep # 0 /\ pc' = "capture") => step' = failedStep]_vars

\* C18 (amended): a failed capture is followed by the back-off, which leaves
\* the step number alone, and the iteration that follows has the failed
\* iteration's step number plus one; there is none when the failed
\* iteration was number MAX_STEPS.
C18_RetryNextStep ==
    [][/\ (pc = "capture" /\ pc' \notin {"encode", "handler"})
             => pc' = "capture_sleep" /\ failedStep' = step /\ step' = step
       /\ (pc = "capture_sleep" /\ pc' # "handler")
             => pc' = "while" /\ step' = step /\ failedStep' = failedStep
       /\ (pc = "while" /\ failedStep # 0 /\ pc' = "capture")
             => step' = failedStep + 1 /\ step' <= MAX_STEPS
       /\ (pc = "while" /\ failedStep = MAX_STEPS) => pc' # "capture"]_vars

C18_Witness ==
    /\ pc = "capture"
    /\ failedStep = 1 /\ step = 2
    /\ captureCount = 1 /\ failures = 1

Order == <<"capture", "encode", "hierarchy", "decide", "record", "execute">>

Pos(o) == CHOOSE i \in 1..Len(Order) : Order[i] = o

\* s lists operations in the order of Order, none twice.
InOrder(s) == \A i \in 1..Len(s) : \A j \in 1..Len(s) : i < j => Pos(s[i]) < Pos(s[j])

\* C19: the operations of an iteration come in the order capture, encode,
\* hierarchy, decide, record, execute, none twice; once the iteration of a
\* decision the provider returned is over (or the run has left the loop
\* holding it) log_step was called for it; and no execute_action call is
\* made before the log_step call of its iteration.
C19_IterationOrder ==
    /\ InOrder(ops)
    /\ (decision # NoDecision /\ pc \in {"stamp", "while", "finally", "exited"})
          => "record" \in Range(ops)
    /\ "execute" \in Range(ops) => "record" \in Range(ops)

\* The positions of an iteration that has not obtained a decision.
FailingPcs == {"capture", "capture_sleep", "encode", "observe", "decide", "attempt",
               "backoff", "except", "cooldown"}

\* C20: an iteration that fails records no step, executes nothing and
\* leaves goal_achieved, the step number and the last-action timestamp as
\* they are; a capture failure goes through the 1 s back-off, a transport
\* failure through the 5 s cool-down, a malformed response and an encode
\* failure go to the next iteration with no pause; the next iteration
\* increments the step.
C20_FailedIterationFrame ==
    [][/\ (pc \in FailingPcs /\ pc' \in FailingPcs \cup {"while"})
             => UNCHANGED <<step, step_count, report, execCount, goal_achieved, stamps>>
       /\ (pc = "capture" /\ pc' \notin {"encode", "handler"}) => pc' = "capture_sleep"
       /\ (pc = "capture_sleep" /\ pc' # "handler") => pc' = "while"
       /\ (pc = "encode" /\ pc' \notin {"observe", "handler"}) => pc' = "while"
       /\ (pc = "except" /\ pc' # "handler" /\ raised \in MalformedFaults) => pc' = "while"
       /\ (pc = "except" /\ pc' # "handler" /\ raised \notin MalformedFaults)
             => pc' = "cooldown"
       /\ (pc = "cooldown" /\ pc' # "handler") => pc' = "while"
       /\ (pc = "while" /\ pc' = "capture") => step' = step + 1]_vars

\* C21: an interruption that arrives inside the try block is answered by
\* end_session(success=False, "Session interrupted by user."), whatever
\* goal_achieved holds, the run returning with that summary last in the
\* report; and once a run is interrupted no execute_action call and no
\* transport call is made.
C21_InterruptionEndsSession ==
    /\ [][interrupted # "no" => execCount' = execCount /\ lastCall' = NoCall]_vars
    /\ []((interrupted = "try" /\ pc \in {"handler_print", "finally", "exited"})
             => /\ Last(report) = Summary("false", "interrupted", step_count)
                /\ exitExc = "none")

C21_Witness ==
    /\ pc = "exited" /\ interrupted = "try"
    /\ goal_achieved = "true"
    /\ step_count = 1 /\ execCount = 0
    /\ EndSessionCalls = <<Summary("false", "interrupted", 1)>>

\* C22: a run that has exited was interrupted, or it returned after one
\* end_session call whose success is that of the most recent decision's
\* goal_achieved, a false success being passed only at step MAX_STEPS; no
\* decision makes it exit another way.
C22_TerminalStates ==
    pc = "exited" =>
        \/ interrupted # "no"
        \/ /\ exitExc = "none"
           /\ Len(EndSessionCalls) = 1
           /\ EndSessionCalls[1].success = goal_achieved
           /\ ~Truthy(goal_achieved) => step = MAX_STEPS

\* A decision with a nested shape the prompt does not allow.
Malformed(d) ==
    \/ d.shape # "dict"
    \/ ~d.action.isdict
    \/ ~d.ux_audit.isdict
    \/ Tag(d.action) \notin KnownTypes
    \/ d.ux_audit.status \notin {"PASS", "WARN", "FAIL"}

\* C23: no decision makes run_ghost_bot end with an exception; a decision
\* with a malformed nested shape is recorded as a step like any other, and
\* when it is executed no transport call is made for an action that is no
\* object or has an unknown type, and the execution reports failure.
C23_MalformedShapesSurvive ==
    /\ exitExc # "AttributeError"
    /\ (Malformed(decision) /\ pc \in {"execute", "settle", "stamp"})
          => Last(report) = StepEntry(step_count)
    /\ (pc = "settle" /\ (~decision.action.isdict \/ Tag(decision.action) \notin KnownTypes))
          => lastCall = NoCall /\ success = FALSE

\* C24: an executed action that the recorder logs in the raw form made no
\* transport call and returned False, and one that the recorder logs as
\* one of the 7 variants made that variant's transport call.
C24_SameClassification ==
    pc = "settle" =>
        /\ LoggedVariant(decision.action) = "unrecognized"
              => lastCall = NoCall /\ success = FALSE
        /\ LoggedVariant(decision.action) \in KnownTypes
              => lastCall = Listed(decision.action, LoggedVariant(decision.action))

IsExecute(o) == o = "execute"

\* C25: execute_action is called at most once in an iteration and makes at
\* most one transport call; whatever it returned, the loop goes through
\* the settle pause to the assignment of last_action_time and the next loop
\* test, executing nothing more.
C25_FailedActionNotRetried ==
    /\ [][/\ (pc = "execute" /\ pc' = "settle") => execCount' = execCount + 1
          /\ (pc = "settle" /\ pc' # "handler")
                => pc' = "stamp" /\ execCount' = execCount /\ lastCall' = lastCall
          /\ (pc = "stamp" /\ pc' # "handler")
                => pc' = "while" /\ stamps' = stamps + 1 /\ execCount' = execCount]_vars
    /\ [](/\ execCount <= step_count
          /\ Len(SelectSeq(ops, IsExecute)) <= 1
          /\ pc = "settle" => lastCall \in {NoCall, TransportCall(decision.action)})

C25_Witness ==
    /\ pc = "settle"
    /\ success = FALSE
    /\ lastCall = [fn |-> "tap", args |-> <<"Login">>]
    /\ execCount = 2 /\ stamps = 1

\* The text the _parse_response call about to be made is given, and what
\* the call just made ended with.
ParseInput == IF ppc = "ready" THEN raw_content ELSE Fenced(raw_content)

ParseResult == IF ppc = "parsed" THEN outcome ELSE fencedOutcome

\* C26 (as claimed): a _parse_response call that returns leaves the
\* returned Decision in last_response and its input in the last raw
\* response; a call that raises ValueError leaves both fields as they were;
\* so a non-null last_response has the four required fields.
C26_StoredOnSuccessOnly ==
    /\ [][ppc' # ppc =>
            /\ ParseResult'.status = "ok"
                  => last_response' = ParseResult'.value /\ last_raw_response' = ParseInput
            /\ ParseResult'.status = "ValueError"
                  => UNCHANGED <<last_response, last_raw_response>>]_vars
    /\ [](last_response # NoValue
             => last_response.kind = "object" /\ FirstMissing(last_response, 1) = 0)

\* C26 (amended): every _parse_response call leaves its input in the last
\* raw response, whatever it ends with; last_response is overwritten with
\* the parsed value by every call whose text json.loads accepts, the
\* returned Decision when the call returns, and is left as it was by a call
\* whose text is empty or no JSON.
C26_StoredOnEveryCall ==
    [][ppc' # ppc =>
          /\ last_raw_response' = ParseInput
          /\ ParseResult'.status = "ok" => last_response' = ParseResult'.value
          /\ (ParseInput = <<>> \/ JsonLoads(ExtractContent(ParseInput)) = JSONDecodeError)
                => /\ ParseResult'.status = "ValueError"
                   /\ last_response' = last_response
          /\ (ParseInput # <<>> /\ JsonLoads(ExtractContent(ParseInput)) # JSONDecodeError)
                => last_response' = JsonLoads(ExtractContent(ParseInput))]_vars

C26_Witness ==
    /\ ppc = "done"
    /\ outcome = Raised("ValueError")
    /\ fencedOutcome = Raised("ValueError")
    /\ last_raw_response = Fenced(raw_content)
    /\ last_response.kind = "object"
    /\ FirstMissing(last_response, 1) # 0

\* The positions of the text blocks in the reply.
TextBlocks == {i \in 1..Len(response_content) : response_content[i].type = "text"}

\* C27: the text the Anthropic variant hands to _parse_response is the text
\* of the first block of type text, whatever blocks follow, and the empty
\* text when the reply has no such block; a reply with no text block makes
\* the attempt raise ValueError, and an attempt that raised ValueError is
\* the call's last attempt.
C27_FirstTextBlock ==
    /\ [](ppc = "parse" =>
             /\ TextBlocks # {} =>
                   \E i \in TextBlocks :
                      /\ \A j \in TextBlocks : i <= j
                      /\ raw_content = response_content[i].text
             /\ TextBlocks = {} => raw_content = <<>>)
    /\ [][/\ (ppc = "parse" /\ TextBlocks = {})
                => ppc' = "raised" /\ outcome' = Raised("ValueError")
          /\ (ppc = "raised" /\ outcome.status = "ValueError")
                => ppc' = "reraised" /\ attempt_number' = attempt_number]_vars

C27_Witness ==
    /\ ppc = "returned"
    /\ attempt_number = 2
    /\ Len(response_content) = 3
    /\ response_content[1].type = "tool_use"
    /\ response_content[2] = Block("text", ObjectWith({AllFour[i] : i \in 1..4}))
    /\ response_content[3] = Block("text", <<"x">>)
    /\ outcome.status = "ok"

\* The driver methods that return a boolean.
BooleanMethods ==
    {"capture_screen", "tap", "tap_point", "input_text", "go_back", "swipe", "launch_app"}

\* C28: after any call of a MobileDriver method the call has returned, a
\* boolean (for get_hierarchy the output or None), and last_error is None
\* exactly when the call succeeded; so a non-zero exit, a timeout, a
\* command not found and an invalid swipe direction give False or None
\* with last_error set.
C28_LastErrorIffFailed ==
    driverCalls > 0 =>
        /\ driverCall.fn \in BooleanMethods => driverResult \in {"True", "False"}
        /\ driverCall.fn = "get_hierarchy" => driverResult \in {"xml", "None"}
        /\ (last_error = "None") <=> (driverResult \in {"True", "xml"})
        /\ (driverCall.fn = "swipe" /\ driverCall.args[1] \notin SwipeDirections)
              => driverResult = "False" /\ last_error # "None"

C28_Witness ==
    /\ driverCalls = 2
    /\ driverCall = Call("get_hierarchy", <<>>)
    /\ driverResult = "None"
    /\ last_error = "Command timed out after 30 seconds"

\* C29: the entry log_step writes for a step carries the high-latency note
\* exactly when the context passed to get_next_action for that step was
\* not None, that is exactly when the latency of the step is above
\* HIGH_LATENCY_THRESHOLD; the entry is the step's entry in the report.
C29_NoteIffContext ==
    /\ [][(pc = "log" /\ pc' = "execute") =>
             /\ annotated' <=> (context # <<>>)
             /\ annotated' <=> (latency_ms > HIGH_LATENCY_THRESHOLD)
             /\ context # <<>> => context = <<latency_ms>>]_vars
    /\ [](pc = "execute" => Last(report) = StepEntry(step_count))
    /\ [](annotated => pc = "execute")

C29_Witness ==
    /\ pc = "execute"
    /\ annotated
    /\ step_count = 2
    /\ slept = 0

\* C30: last_action_time is assigned when the session starts and at the
\* end of an iteration that recorded a step, nowhere else; the 1 s of the
\* capture back-off and the 5 s of the cool-down add to the time since
\* then; and the latency an iteration measures, the one it passes to the
\* provider and to log_step, is at least the time slept since then.
C30_LatencySinceLastStep ==
    /\ [][/\ (slept' # slept /\ interrupted' = interrupted) =>
                \/ pc = "stamp" /\ "record" \in Range(ops) /\ slept' = 0
                \/ pc = "capture_sleep" /\ slept' = slept + 1000
                \/ pc = "cooldown" /\ slept' = slept + 5000
          /\ (pc = "capture_sleep" /\ pc' = "while") => slept' = slept + 1000
          /\ (pc = "cooldown" /\ pc' = "while") => slept' = slept + 5000
          /\ (pc = "stamp" /\ pc' = "while") => slept' = 0 /\ stamps' = stamps + 1
          /\ stamps' # stamps => pc = "stamp"
          /\ (pc = "observe" /\ pc' = "decide") => latency_ms' >= slept]_vars
    /\ [](pc \in {"decide", "attempt", "backoff", "extract", "log"}
             => latency_ms >= slept /\ context = Context(latency_ms))

C30_Witness ==
    /\ pc = "attempt"
    /\ stamps = 0
    /\ failures = 2
    /\ slept = 6000
    /\ latency_ms = 6000
    /\ context = <<6000>>

\* C31 (as claimed): in every state of a run the recorder's step count is
\* the number of get_next_action calls that returned and is at most the
\* loop's step, and the two are equal exactly when no iteration has failed.
C31_CountsInEveryState ==
    /\ step_count = returnedCount
    /\ step_count <= step
    /\ (step_count = step) <=> (failures = 0)

\* The window between the return of get_next_action and the increment in
\* log_step, and a run that an exception or an interruption took out of it.
DecidedNotYetCounted ==
    \/ pc \in {"extract", "log"}
    \/ exitExc = "AttributeError"
    \/ interrupted # "no"

\* C31 (amended): the step count never exceeds the number of decide calls
\* that returned, nor the loop's step, and lags the former by one only from
\* the return of get_next_action to the increment in log_step, or for good
\* when the run is aborted or interrupted there; whenever the loop tests its
\* condition and when it finalizes, the step count is the number of decide
\* calls that returned and the step is the step count plus the number of
\* failed iterations, so the two are equal exactly when no iteration
\* failed, and the summary's total is the step of the final note minus the
\* failed iterations.
C31_CountsAtLoopTop ==
    /\ step_count <= returnedCount /\ returnedCount <= step_count + 1
    /\ step_count <= step
    /\ returnedCount = step_count + 1 => DecidedNotYetCounted
    /\ (pc \in {"while", "final", "final_print"} \/ ReturnedNormally) =>
          /\ step_count = returnedCount
          /\ step = step_count + failures
          /\ (step_count = step) <=> (failures = 0)
    /\ ReturnedNormally =>
          /\ Last(report) = Summary(goal_achieved, "ended", step - failures)
          /\ failures > 0 => Last(report).n < step

C31_Witness ==
    /\ ReturnedNormally
    /\ step = MAX_STEPS
    /\ failures = 1
    /\ returnedCount = MAX_STEPS - 1
    /\ Last(report) = Summary("false", "ended", MAX_STEPS - 1)
====
